---- MODULE Spec2Model ----
(***************************************************************************)
(* Section-aware comparison of two versions of a generated summary, as     *)
(* implemented by confluence_summarizer:                                   *)
(*   agent/base.py   BaseConfluenceAgent._calculate_comparison_stats and   *)
(*                   BaseConfluenceAgent._analyze_section_changes          *)
(*   cli.py          display_diff                                          *)
(*   agent/summarizer.py  ConfluenceSummarizerAgent, the summary workflow  *)
(*   core/persona.py PersonaManager                                        *)
(* A text is a sequence of one-character strings, so that the regular      *)
(* expressions, str.strip, str.split and str.splitlines of the source act  *)
(* on characters exactly as they do in Python.                             *)
(***************************************************************************)
EXTENDS Integers, Sequences, FiniteSets, TLC

VARIABLES
    old_content,   \* the old text handed to the comparison
    new_content,   \* the new text handed to the comparison
    phase,         \* "ready" | "compared" | "displayed"
    llm_failing,   \* the titles for which the text generation call raises
    report,        \* outcome of _calculate_comparison_stats, NoReport before
    shown,         \* outcome of display_diff, NoDisplay before
    a_lines,       \* the old lines handed to unified_diff
    b_lines,       \* the new lines handed to unified_diff
    patch,         \* the list unified_diff returned
    diff_phase,    \* "idle" | "ready" | "done"
    export_in,     \* what an export is made of: summary, comparison_stats, diff_result
    export_file,   \* the text of the export file, None before it is written
    extracted,     \* the summary read back from the file, None before
    trip_phase,    \* "idle" | "ready" | "written" | "read"
    pc,            \* the node of the workflow to run next, or "END", "idle",
                   \* "returned", "raised"
    agent_state,   \* the run-context the stages hand on (AgentState)
    export_dir,    \* the export directory: the text of each of its files
    call_kwargs,   \* the arguments of the call of summarize() under way
    world,         \* what the collaborators do during the run under way
    result,        \* what summarize() returned, None before
    log,           \* what the stages of the run did, and the number of runs
    manager,       \* a PersonaManager: its dictionary self.personas
    listing,       \* the dictionary list_personas() handed out, None before
    persona_out,   \* the outcome of the last call of a method of the manager
    persona_calls  \* the calls made on the manager, in their order

engine_vars == <<old_content, new_content, phase, llm_failing, report, shown>>
diff_vars == <<a_lines, b_lines, patch, diff_phase>>
trip_vars == <<export_in, export_file, extracted, trip_phase>>
vars == <<old_content, new_content, phase, llm_failing, report, shown,
          a_lines, b_lines, patch, diff_phase,
          export_in, export_file, extracted, trip_phase,
          pc, agent_state, export_dir, call_kwargs, world, result, log,
          manager, listing, persona_out, persona_calls>>
pipeline_vars == <<pc, agent_state, export_dir, call_kwargs, world, result, log>>
persona_vars == <<manager, listing, persona_out, persona_calls>>

-----------------------------------------------------------------------------
(* Bounds of the model.                                                    *)

\* most lines of a text handed to the comparison
MaxLines == 3

\* most lines before and after the common middle of the sequences handed to
\* unified_diff alone
MaxEdge == 2

\* most calls of summarize() in a behaviour
MaxRuns == 2

\* the length of the long common middle: more than twice the context, so
\* that the changes before and after it fall in two hunks
PadLen == 7

\* the number of calls made on one PersonaManager
MaxCalls == 5

-----------------------------------------------------------------------------
(* Python string primitives.                                               *)

NL == "\n"

\* characters removed by str.strip() without argument
Whitespace == {" ", NL}

\* characters removed by .strip("# ")
HashSpace == {"#", " "}

Min(S) == CHOOSE m \in S : \A x \in S : m <= x
Max(S) == CHOOSE m \in S : \A x \in S : m >= x

\* sep.join(parts)
RECURSIVE Join(_, _)
Join(parts, sep) ==
    IF parts = <<>> THEN <<>>
    ELSE IF Len(parts) = 1 THEN parts[1]
    ELSE parts[1] \o sep \o Join(Tail(parts), sep)

\* s.split("\n"): always at least one piece
RECURSIVE SplitNl(_)
SplitNl(s) ==
    LET P == {i \in 1..Len(s) : s[i] = NL}
    IN  IF P = {} THEN <<s>>
        ELSE LET i == Min(P)
             IN  <<SubSeq(s, 1, i - 1)>> \o SplitNl(SubSeq(s, i + 1, Len(s)))

\* s.splitlines(): no piece for the empty text, none after a final newline
SplitLines(s) ==
    LET p == SplitNl(s)
    IN  IF p[Len(p)] = <<>> THEN SubSeq(p, 1, Len(p) - 1) ELSE p

RECURSIVE LStrip(_, _)
LStrip(s, C) == IF s # <<>> /\ Head(s) \in C THEN LStrip(Tail(s), C) ELSE s

RECURSIVE RStrip(_, _)
RStrip(s, C) ==
    IF s # <<>> /\ s[Len(s)] \in C THEN RStrip(SubSeq(s, 1, Len(s) - 1), C) ELSE s

\* s.strip(chars)
Strip(s, C) == RStrip(LStrip(s, C), C)

\* truth value of s.strip()
NonBlank(s) == Strip(s, Whitespace) # <<>>

\* the pieces of s cut before each position of P (Python's re.split on a
\* zero-width pattern: a match at the start of s leaves an empty first piece)
RECURSIVE CutBefore(_, _, _)
CutBefore(s, from, P) ==
    IF P = {} THEN <<SubSeq(s, from, Len(s))>>
    ELSE LET m == Min(P)
         IN  <<SubSeq(s, from, m - 1)>> \o CutBefore(s, m, P \ {m})

-----------------------------------------------------------------------------
(* difflib.unified_diff(a, b, lineterm=''), the line differ the source     *)
(* imports. Indices are Python's: 0-based, ranges half-open.               *)

\* unified_diff's default number of context lines
ContextLines == 3

\* a[i] of Python
At(a, i) == a[i + 1]

\* length of the common run of a from i and b from j inside [.., ahi) x [.., bhi)
RECURSIVE RunLen(_, _, _, _, _, _)
RunLen(a, b, i, j, ahi, bhi) ==
    IF i < ahi /\ j < bhi /\ At(a, i) = At(b, j)
    THEN 1 + RunLen(a, b, i + 1, j + 1, ahi, bhi)
    ELSE 0

\* SequenceMatcher.find_longest_match without junk: the longest block, of
\* those the one starting earliest in a, of those the one earliest in b
FindLongestMatch(a, b, alo, ahi, blo, bhi) ==
    LET C    == (alo..(ahi - 1)) \X (blo..(bhi - 1))
        best == IF C = {} THEN 0
                ELSE Max({RunLen(a, b, c[1], c[2], ahi, bhi) : c \in C})
    IN  IF best = 0 THEN <<alo, blo, 0>>
        ELSE LET W == {c \in C : RunLen(a, b, c[1], c[2], ahi, bhi) = best}
                 i == Min({c[1] : c \in W})
                 j == Min({c[2] : c \in {d \in W : d[1] = i}})
             IN  <<i, j, best>>

\* SequenceMatcher.get_matching_blocks, without the final sentinel
RECURSIVE MatchingBlocks(_, _, _, _, _, _)
MatchingBlocks(a, b, alo, ahi, blo, bhi) ==
    LET m == FindLongestMatch(a, b, alo, ahi, blo, bhi)
        i == m[1]
        j == m[2]
        k == m[3]
    IN  IF k = 0 THEN <<>>
        ELSE (IF alo < i /\ blo < j
              THEN MatchingBlocks(a, b, alo, i, blo, j) ELSE <<>>)
             \o <<m>>
             \o (IF i + k < ahi /\ j + k < bhi
                 THEN MatchingBlocks(a, b, i + k, ahi, j + k, bhi) ELSE <<>>)

Opcode(tag, i1, i2, j1, j2) == [tag |-> tag, i1 |-> i1, i2 |-> i2, j1 |-> j1, j2 |-> j2]

\* SequenceMatcher.get_opcodes: the walk over the matching blocks
RECURSIVE OpcodesFrom(_, _, _)
OpcodesFrom(blocks, i, j) ==
    IF blocks = <<>> THEN <<>>
    ELSE LET ai   == blocks[1][1]
             bj   == blocks[1][2]
             size == blocks[1][3]
             tag  == IF i < ai /\ j < bj THEN "replace"
                     ELSE IF i < ai THEN "delete"
                     ELSE IF j < bj THEN "insert"
                     ELSE ""
         IN  (IF tag # "" THEN <<Opcode(tag, i, ai, j, bj)>> ELSE <<>>)
             \o (IF size > 0
                 THEN <<Opcode("equal", ai, ai + size, bj, bj + size)>> ELSE <<>>)
             \o OpcodesFrom(Tail(blocks), ai + size, bj + size)

GetOpcodes(a, b) ==
    OpcodesFrom(MatchingBlocks(a, b, 0, Len(a), 0, Len(b)) \o <<<<Len(a), Len(b), 0>>>>,
                0, 0)

\* SequenceMatcher.get_grouped_opcodes: the loop over the trimmed codes
RECURSIVE GroupFrom(_, _, _)
GroupFrom(codes, group, n) ==
    IF codes = <<>>
    THEN IF group # <<>> /\ ~(Len(group) = 1 /\ group[1].tag = "equal")
         THEN <<group>> ELSE <<>>
    ELSE LET c == codes[1]
         IN  IF c.tag = "equal" /\ c.i2 - c.i1 > n + n
             THEN <<Append(group, Opcode("equal", c.i1, Min({c.i2, c.i1 + n}),
                                         c.j1, Min({c.j2, c.j1 + n})))>>
                  \o GroupFrom(Tail(codes),
                               <<Opcode("equal", Max({c.i1, c.i2 - n}), c.i2,
                                        Max({c.j1, c.j2 - n}), c.j2)>>, n)
             ELSE GroupFrom(Tail(codes), Append(group, c), n)

\* the first code, when it is an equal one, keeps only its last n lines
TrimFirst(codes, n) ==
    LET f == codes[1]
    IN  IF f.tag = "equal"
        THEN <<Opcode("equal", Max({f.i1, f.i2 - n}), f.i2,
                      Max({f.j1, f.j2 - n}), f.j2)>> \o Tail(codes)
        ELSE codes

\* the last code, when it is an equal one, keeps only its first n lines
TrimLast(codes, n) ==
    LET l == codes[Len(codes)]
    IN  IF l.tag = "equal"
        THEN SubSeq(codes, 1, Len(codes) - 1)
             \o <<Opcode("equal", l.i1, Min({l.i2, l.i1 + n}),
                         l.j1, Min({l.j2, l.j1 + n}))>>
        ELSE codes

\* codes = self.get_opcodes() or [("equal", 0, 1, 0, 1)]
OrOneEqual(codes) == IF codes = <<>> THEN <<Opcode("equal", 0, 1, 0, 1)>> ELSE codes

GetGroupedOpcodes(a, b, n) ==
    GroupFrom(TrimLast(TrimFirst(OrOneEqual(GetOpcodes(a, b)), n), n), <<>>, n)

\* one line of a unified diff: op is "---", "+++", "@@" (a hunk header, with
\* its ranges), " " (context), "-" (delete) or "+" (insert)
DiffLine(op, line, range) == [op |-> op, line |-> line, range |-> range]

Prefixed(op, a, lo, hi) == [k \in 1..(hi - lo) |-> DiffLine(op, At(a, lo + k - 1), <<>>)]

RECURSIVE HunkLines(_, _, _)
HunkLines(group, a, b) ==
    IF group = <<>> THEN <<>>
    ELSE LET c == group[1]
         IN  (IF c.tag = "equal" THEN Prefixed(" ", a, c.i1, c.i2)
              ELSE (IF c.tag \in {"replace", "delete"}
                    THEN Prefixed("-", a, c.i1, c.i2) ELSE <<>>)
                   \o (IF c.tag \in {"replace", "insert"}
                       THEN Prefixed("+", b, c.j1, c.j2) ELSE <<>>))
             \o HunkLines(Tail(group), a, b)

RECURSIVE GroupLines(_, _, _)
GroupLines(groups, a, b) ==
    IF groups = <<>> THEN <<>>
    ELSE LET g     == groups[1]
             first == g[1]
             last  == g[Len(g)]
         IN  <<DiffLine("@@", <<>>, <<first.i1, last.i2, first.j1, last.j2>>)>>
             \o HunkLines(g, a, b)
             \o GroupLines(Tail(groups), a, b)

\* mutant of UnifiedDiff: the two file header lines are emitted even when
\* there is no hunk
UnifiedDiffHeadersAlways(a, b) ==
    <<DiffLine("---", <<>>, <<>>), DiffLine("+++", <<>>, <<>>)>>
    \o GroupLines(GetGroupedOpcodes(a, b, ContextLines), a, b)

\* list(unified_diff(a, b, lineterm='')): the two file header lines come with
\* the first hunk, so equal sequences give the empty list
UnifiedDiff(a, b) ==
    LET groups == GetGroupedOpcodes(a, b, ContextLines)
    IN  IF groups = <<>> THEN <<>>
        ELSE <<DiffLine("---", <<>>, <<>>), DiffLine("+++", <<>>, <<>>)>>
             \o GroupLines(groups, a, b)

\* mutant of DiffOfLines: the two arguments of the call exchanged
DiffOfLinesSwapped(old_lines, new_lines) == UnifiedDiff(new_lines, old_lines)

\* diff = list(unified_diff(old_lines, new_lines, lineterm=''))
DiffOfLines(old_lines, new_lines) == UnifiedDiff(old_lines, new_lines)

-----------------------------------------------------------------------------
(* agent/base.py: the comparison engine.                                   *)

\* the match positions of re.split(r"(?=## )", s): wherever "## " follows,
\* at the start of a line or inside it
H2Positions(s) ==
    {i \in 1..(Len(s) - 2) : s[i] = "#" /\ s[i + 1] = "#" /\ s[i + 2] = " "}

\* re.split(r"(?=## )", s)
SplitSections(s) == CutBefore(s, 1, H2Positions(s))

\* s.split("\n")[0].strip("# ")
SectionTitle(s) == Strip(SplitNl(s)[1], HashSpace)

\* {s.split("\n")[0].strip("# ") for s in sections if s.strip()}
SectionTitles(sections) ==
    {SectionTitle(sections[k]) : k \in {j \in 1..Len(sections) : NonBlank(sections[j])}}

\* next(s for s in sections if s.split("\n")[0].strip("# ") == title):
\* the first piece with that title, blank pieces included
FirstTitled(sections, title) ==
    sections[Min({k \in 1..Len(sections) : SectionTitle(sections[k]) = title})]

\* section.split("\n")[1:]
BodyLines(section) == Tail(SplitNl(section))

\* what chain.invoke does in _analyze_section_changes: it raises, or it
\* returns the service's text
LlmRaises == [raised |-> TRUE, text |-> <<"b", "o", "o", "m">>]
LlmAnswers == [raised |-> FALSE, text |-> <<" ", "o", "k", NL>>]

\* f"Error analyzing changes: {str(e)}"
ErrorMarker(e) == <<"Error analyzing changes: ">> \o e

\* mutant of AnalyzeSectionChanges: no try/except around the call
AnalyzeSectionChangesUncaught(old_section, new_section, llm) ==
    [raised |-> llm.raised, value |-> Strip(llm.text, Whitespace)]

\* _analyze_section_changes: the try/except turns every failure of the
\* call into the error marker
AnalyzeSectionChanges(old_section, new_section, llm) ==
    IF llm.raised
    THEN [raised |-> FALSE, value |-> ErrorMarker(llm.text)]
    ELSE [raised |-> FALSE, value |-> Strip(llm.text, Whitespace)]

\* mutant of LineDifference: the operands exchanged
LineDifferenceReversed(old_lines, new_lines) == Len(old_lines) - Len(new_lines)

\* "line_difference": len(new_lines) - len(old_lines)
LineDifference(old_lines, new_lines) == Len(new_lines) - Len(old_lines)

\* mutant of AddedSections: every title of the new text counted
AddedSectionsAll(old_titles, new_titles) == Cardinality(new_titles)

\* stats["added_sections"] = len(new_section_titles - old_section_titles)
AddedSections(old_titles, new_titles) == Cardinality(new_titles \ old_titles)

\* mutant of RemovedSections: every title of the old text counted
RemovedSectionsAll(old_titles, new_titles) == Cardinality(old_titles)

\* stats["removed_sections"] = len(old_section_titles - new_section_titles)
RemovedSections(old_titles, new_titles) == Cardinality(old_titles \ new_titles)

\* stats["changed_sections"] = len(old_section_titles & new_section_titles)
ChangedSections(old_titles, new_titles) == Cardinality(old_titles \cap new_titles)

\* "diff_line_count": len(diff)
DiffLineCount(diff) == Len(diff)

\* the diff of the bodies of the first sections titled t
SectionDiff(old_sections, new_sections, t) ==
    UnifiedDiff(BodyLines(FirstTitled(old_sections, t)),
                BodyLines(FirstTitled(new_sections, t)))

\* the call of the annotator for title t
SectionAnalysis(old_sections, new_sections, t, failing) ==
    AnalyzeSectionChanges(Join(BodyLines(FirstTitled(old_sections, t)), <<NL>>),
                          Join(BodyLines(FirstTitled(new_sections, t)), <<NL>>),
                          IF t \in failing THEN LlmRaises ELSE LlmAnswers)

\* the entry appended to stats["section_changes"] for title t
SectionChange(old_sections, new_sections, t, failing) ==
    [section         |-> t,
     old_line_count  |-> Len(BodyLines(FirstTitled(old_sections, t))),
     new_line_count  |-> Len(BodyLines(FirstTitled(new_sections, t))),
     diff_line_count |-> DiffLineCount(SectionDiff(old_sections, new_sections, t)),
     change_summary  |-> SectionAnalysis(old_sections, new_sections, t, failing).value]

\* mutant of AnnotatorCalls: the annotator called for every common title
AnnotatorCallsAlways(diff) == 1

\* if diff: change_summary = self._analyze_section_changes(...): the calls
\* of the annotator made in one pass of the loop, for a section whose edit
\* script is diff
AnnotatorCalls(diff) == IF diff # <<>> THEN 1 ELSE 0

\* the loop over old_section_titles & new_section_titles: the titles whose
\* diff is not empty (if diff:)
Differing(old_sections, new_sections) ==
    {t \in SectionTitles(old_sections) \cap SectionTitles(new_sections) :
        SectionDiff(old_sections, new_sections, t) # <<>>}

\* the stats dictionary. section_changes is kept as a set: the list is
\* filled in the iteration order of a Python set, which is unspecified.
\* Four more fields record the run of the loop: examined (the titles it
\* visits), edit_script (the diff made for each), annotated (the titles
\* the annotator was called for) and calls (the number of calls of the
\* annotator in the pass of each title). The last fields keep the local
\* variables of the function: the pieces of the two splits, the two sets
\* of titles, and the body lines taken for each title (old_lines and
\* new_lines of lines 110-111).
StatsOf(old_lines, new_lines, old_sections, new_sections, failing) ==
    [raised           |-> FALSE,
     old_line_count   |-> Len(old_lines),
     new_line_count   |-> Len(new_lines),
     line_difference  |-> LineDifference(old_lines, new_lines),
     changed_sections |-> ChangedSections(SectionTitles(old_sections),
                                          SectionTitles(new_sections)),
     added_sections   |-> AddedSections(SectionTitles(old_sections),
                                        SectionTitles(new_sections)),
     removed_sections |-> RemovedSections(SectionTitles(old_sections),
                                          SectionTitles(new_sections)),
     section_changes  |-> {SectionChange(old_sections, new_sections, t, failing) :
                              t \in Differing(old_sections, new_sections)},
     examined         |-> SectionTitles(old_sections) \cap SectionTitles(new_sections),
     edit_script      |-> [t \in SectionTitles(old_sections)
                                    \cap SectionTitles(new_sections)
                             |-> SectionDiff(old_sections, new_sections, t)],
     annotated        |-> Differing(old_sections, new_sections),
     calls            |-> [t \in SectionTitles(old_sections)
                                    \cap SectionTitles(new_sections)
                             |-> AnnotatorCalls(SectionDiff(old_sections,
                                                            new_sections, t))],
     old_sections     |-> old_sections,
     new_sections     |-> new_sections,
     old_titles       |-> SectionTitles(old_sections),
     new_titles       |-> SectionTitles(new_sections),
     compared         |-> [t \in SectionTitles(old_sections)
                                    \cap SectionTitles(new_sections)
                             |-> [old_lines |-> BodyLines(FirstTitled(old_sections, t)),
                                  new_lines |-> BodyLines(FirstTitled(new_sections, t))]]]

\* _calculate_comparison_stats; failing is the set of titles for which the
\* text generation call raises. An exception leaving the annotator would
\* leave this function too, and no stats would be returned.
CalculateComparisonStats(old, new, failing) ==
    IF \E t \in Differing(SplitSections(old), SplitSections(new)) :
           SectionAnalysis(SplitSections(old), SplitSections(new), t, failing).raised
    THEN [raised |-> TRUE]
    ELSE StatsOf(SplitLines(old), SplitLines(new),
                 SplitSections(old), SplitSections(new), failing)

-----------------------------------------------------------------------------
(* cli.py: display_diff, the file comparison of the compare command.       *)

\* number of "#" characters of s from position i on
RECURSIVE HashRun(_, _)
HashRun(s, i) == IF i <= Len(s) /\ s[i] = "#" THEN 1 + HashRun(s, i + 1) ELSE 0

\* s matches r'#+ ' at position i
HeadingAt(s, i) ==
    LET k == HashRun(s, i) IN k > 0 /\ i + k <= Len(s) /\ s[i + k] = " "

\* re.split(r'(?=^#+ )', s, flags=re.MULTILINE): cut before every line that
\* starts with a run of "#" and a space
SplitHeadings(s) ==
    CutBefore(s, 1, {i \in 1..Len(s) : (i = 1 \/ s[i - 1] = NL) /\ HeadingAt(s, i)})

\* group(2) of re.match(r'^(#+ )(.+)$', section, re.MULTILINE): the rest of
\* the first line after the marker, which must not be empty
HeadingLabel(section) == 
    LET first == SplitNl(section)[1]
    IN  SubSeq(first, HashRun(first, 1) + 2, Len(first))

HasTitleMatch(section) == HeadingAt(section, 1) /\ HeadingLabel(section) # <<>>

\* title_match.group(2).strip()
DisplayTitle(section) == Strip(HeadingLabel(section), Whitespace)

\* re.match(r'^#+ ' + re.escape(title), s, re.MULTILINE): s starts with a
\* marker followed by the title; what follows the title is not looked at
MatchesTitle(s, title) ==
    LET from == HashRun(s, 1) + 2
    IN  /\ HeadingAt(s, 1)
        /\ from + Len(title) - 1 <= Len(s)
        /\ SubSeq(s, from, from + Len(title) - 1) = title

\* the sections of a split that the loops of display_diff do not skip
Titled(sections) == SelectSeq(sections, LAMBDA s : NonBlank(s) /\ HasTitleMatch(s))

\* next((s for s in new_sections if s.strip() and re.match(...)), None);
\* <<>> stands for None
Counterpart(sections, title) ==
    LET K == {k \in 1..Len(sections) :
                 NonBlank(sections[k]) /\ MatchesTitle(sections[k], title)}
    IN  IF K = {} THEN <<>> ELSE <<sections[Min(K)]>>

Row(section, old, new, changes, summary) ==
    [section |-> section, old |-> old, new |-> new, changes |-> changes,
     summary |-> summary]

\* the first loop of display_diff, up to the first old section that has a
\* counterpart: there lines 105-107 are computed and line 110 then calls
\* unified_diff, a name cli.py neither imports nor defines, so the call
\* raises NameError and the function ends there
RECURSIVE OldLoop(_, _, _)
OldLoop(olds, new_sections, rows) ==
    IF olds = <<>> THEN [rows |-> rows, paired |-> <<>>]
    ELSE LET old_section == Head(olds)
             title       == DisplayTitle(old_section)
             found       == Counterpart(new_sections, title)
         IN  IF found # <<>>
             THEN [rows   |-> rows,
                   paired |-> <<[section     |-> title,
                                 new_section |-> found[1],
                                 old_lines   |-> Len(SplitLines(old_section)),
                                 new_lines   |-> Len(SplitLines(found[1])),
                                 diff_lines  |-> Len(SplitLines(found[1]))
                                                 - Len(SplitLines(old_section))]>>]
             ELSE OldLoop(Tail(olds), new_sections,
                          Append(rows, Row(title, Len(SplitLines(old_section)), 0,
                                           0 - Len(SplitLines(old_section)),
                                           "Section removed")))

\* the second loop of display_diff
RECURSIVE NewLoop(_, _, _)
NewLoop(news, old_sections, rows) ==
    IF news = <<>> THEN rows
    ELSE LET new_section == Head(news)
             title       == DisplayTitle(new_section)
         IN  NewLoop(Tail(news), old_sections,
                     IF Counterpart(old_sections, title) = <<>>
                     THEN Append(rows, Row(title, 0, Len(SplitLines(new_section)),
                                           Len(SplitLines(new_section)), "New section"))
                     ELSE rows)

\* display_diff: rows are the rows added to the table, paired the pairing
\* of an old section with a new one made before the call ended, printed
\* whether the table reached the console, old_sections and new_sections
\* the pieces of the two splits. Every call ends in the NameError
\* of unified_diff, at line 110 or at the latest at line 173.
DisplayDiff(old, new) ==
    LET old_sections == SplitHeadings(old)
        new_sections == SplitHeadings(new)
        first        == OldLoop(Titled(old_sections), new_sections, <<>>)
    IN  IF first.paired # <<>>
        THEN [rows |-> first.rows, paired |-> first.paired, printed |-> FALSE,
              raised |-> "NameError",
              old_sections |-> old_sections, new_sections |-> new_sections]
        ELSE [rows    |-> NewLoop(Titled(new_sections), old_sections, first.rows),
              paired  |-> <<>>,
              printed |-> TRUE,
              raised  |-> "NameError",
              old_sections |-> old_sections, new_sections |-> new_sections]

-----------------------------------------------------------------------------
(* agent/summarizer.py: the export file and the summary read back from it. *)

\* the character U+0060, which a string of this language cannot hold
BackTick == "U+0060"

\* None and a value that is not None
None == <<>>
Some(x) == <<x>>

\* str(n) for a natural number
Digits == <<"0", "1", "2", "3", "4", "5", "6", "7", "8", "9">>
RECURSIVE Str(_)
Str(n) == IF n < 10 THEN <<Digits[n + 1]>> ELSE Str(n \div 10) \o <<Digits[(n % 10) + 1]>>

\* format(n, "+d")
SignedStr(n) == IF n < 0 THEN <<"-">> \o Str(0 - n) ELSE <<"+">> \o Str(n)

\* the first position from which sub occurs in s, 0 when it does not
Find(s, sub) ==
    LET hits == {i \in 1..(Len(s) - Len(sub) + 1) : SubSeq(s, i, i + Len(sub) - 1) = sub}
    IN  IF hits = {} THEN 0 ELSE Min(hits)

\* sub in s
Contains(s, sub) == Find(s, sub) # 0

\* s.split(sep)
RECURSIVE SplitOn(_, _)
SplitOn(s, sep) ==
    IF ~Contains(s, sep) THEN <<s>>
    ELSE <<SubSeq(s, 1, Find(s, sep) - 1)>>
         \o SplitOn(SubSeq(s, Find(s, sep) + Len(sep), Len(s)), sep)

\* the elements of a finite set in some order
RECURSIVE SetToSeq(_)
SetToSeq(S) == IF S = {} THEN <<>> ELSE LET x == CHOOSE y \in S : TRUE
                                       IN  <<x>> \o SetToSeq(S \ {x})

\* "## Summary"
SummaryMarker ==
    <<"#", "#", " ", "S", "u", "m", "m", "a", "r", "y">>

\* "##"
HeadingMarker ==
    <<"#", "#">>

TitleLead ==
    <<"#", " ">>

MetadataLead ==
    <<NL, NL, "#", "#", " ", "M", "e", "t", "a", "d", "a", "t", "a", NL, "-",
      " ", "A", "u", "t", "h", "o", "r", ":", " ">>

DateLead ==
    <<NL, "-", " ", "D", "a", "t", "e", ":", " ">>

SummaryLead ==
    <<NL, NL, "#", "#", " ", "S", "u", "m", "m", "a", "r", "y", NL>>

SummaryTrail ==
    <<NL, NL>>

\* str(None)
NoneText ==
    <<"N", "o", "n", "e">>

DefaultTitle ==
    <<"C", "o", "n", "f", "l", "u", "e", "n", "c", "e", " ", "C", "o", "n",
      "t", "e", "n", "t">>

StatsLead ==
    <<NL, "#", "#", " ", "C", "o", "m", "p", "a", "r", "i", "s", "o", "n",
      " ", "S", "t", "a", "t", "i", "s", "t", "i", "c", "s", NL, NL, "#",
      "#", "#", " ", "O", "v", "e", "r", "v", "i", "e", "w", NL, "|",
      " ", "M", "e", "t", "r", "i", "c", " ", "|", " ", "V", "a", "l",
      "u", "e", " ", "|", NL, "|", "-", "-", "-", "-", "-", "-", "-",
      "-", "|", "-", "-", "-", "-", "-", "-", "-", "|", NL, "|", " ",
      "T", "o", "t", "a", "l", " ", "L", "i", "n", "e", "s", " ", "|", " ">>

StatsChange ==
    <<" ", "(", "C", "h", "a", "n", "g", "e", ":", " ">>

StatsChanged ==
    <<")", " ", "|", NL, "|", " ", "C", "h", "a", "n", "g", "e", "d", " ",
      "S", "e", "c", "t", "i", "o", "n", "s", " ", "|", " ">>

StatsAdded ==
    <<" ", "|", NL, "|", " ", "A", "d", "d", "e", "d", " ", "S", "e", "c",
      "t", "i", "o", "n", "s", " ", "|", " ">>

StatsRemoved ==
    <<" ", "|", NL, "|", " ", "R", "e", "m", "o", "v", "e", "d", " ", "S",
      "e", "c", "t", "i", "o", "n", "s", " ", "|", " ">>

StatsTable ==
    <<" ", "|", NL, NL, "#", "#", "#", " ", "S", "e", "c", "t", "i", "o",
      "n", " ", "C", "h", "a", "n", "g", "e", "s", NL, "|", " ", "S",
      "e", "c", "t", "i", "o", "n", " ", "|", " ", "L", "i", "n", "e",
      "s", " ", "|", " ", "C", "h", "a", "n", "g", "e", " ", "|", " ",
      "S", "u", "m", "m", "a", "r", "y", " ", "|", NL, "|", "-", "-",
      "-", "-", "-", "-", "-", "-", "-", "|", "-", "-", "-", "-", "-",
      "-", "-", "|", "-", "-", "-", "-", "-", "-", "-", "-", "|", "-",
      "-", "-", "-", "-", "-", "-", "-", "-", "|", NL>>

CellLead ==
    <<"|", " ">>

CellSep ==
    <<" ", "|", " ">>

CellTrail ==
    <<" ", "|", NL>>

DiffLead ==
    <<NL, "#", "#", " ", "C", "h", "a", "n", "g", "e", "s", " ", "f", "r",
      "o", "m", " ", "P", "r", "e", "v", "i", "o", "u", "s", " ", "S",
      "u", "m", "m", "a", "r", "y", NL, NL, BackTick, BackTick, BackTick, "d", "i", "f",
      "f", NL>>

DiffTrail ==
    <<NL, BackTick, BackTick, BackTick, NL>>

FooterLead ==
    <<NL, "-", "-", "-", NL, "*", "G", "e", "n", "e", "r", "a", "t", "e",
      "d", " ", "o", "n", ":", " ">>

FooterTrail ==
    <<"*", NL>>

\* datetime.now().strftime("%Y-%m-%d %H:%M:%S"), for a clock that counts the
\* seconds of one minute
DateStem ==
    <<"2", "0", "2", "4", "-", "0", "1", "-", "0", "1", " ", "0", "0", ":",
      "0", "0", ":", "0">>

\* datetime.now().strftime("%Y%m%d_%H%M%S")
StampStem ==
    <<"2", "0", "2", "4", "0", "1", "0", "1", "_", "0", "0", "0", "0", "0">>


StrftimeLong(now) == DateStem \o Str(now)
StrftimeStamp(now) == StampStem \o Str(now)

\* str(x) of an optional text inside an f-string
Shown(x) == IF x = None THEN NoneText ELSE x[1]

\* one row of the table of section changes
ChangeRow(change) ==
    CellLead \o change.section \o CellSep \o Str(change.new_line_count)
    \o CellSep \o SignedStr(change.diff_line_count)
    \o CellSep \o change.change_summary \o CellTrail

RECURSIVE ChangeRows(_)
ChangeRows(changes) ==
    IF changes = <<>> THEN <<>> ELSE ChangeRow(changes[1]) \o ChangeRows(Tail(changes))

\* the section added when state.get("comparison_stats") is true
StatsSection(stats) ==
    StatsLead \o Str(stats.new_line_count)
    \o StatsChange \o SignedStr(stats.line_difference)
    \o StatsChanged \o Str(stats.changed_sections)
    \o StatsAdded \o Str(stats.added_sections)
    \o StatsRemoved \o Str(stats.removed_sections)
    \o StatsTable \o ChangeRows(SetToSeq(stats.section_changes))

\* _format_range_unified(start, stop) of difflib
RangeUnified(start, stop) ==
    IF stop - start = 1 THEN Str(start + 1)
    ELSE IF stop - start = 0 THEN Str(start) \o <<",">> \o Str(0)
    ELSE Str(start + 1) \o <<",">> \o Str(stop - start)

\* one string of the list unified_diff returns, with lineterm=''
DiffText(d) ==
    IF d.op = "---" THEN <<"-", "-", "-", " ">>
    ELSE IF d.op = "+++" THEN <<"+", "+", "+", " ">>
    ELSE IF d.op = "@@"
    THEN <<"@", "@", " ", "-">> \o RangeUnified(d.range[1], d.range[2])
         \o <<" ", "+">> \o RangeUnified(d.range[3], d.range[4]) \o <<" ", "@", "@">>
    ELSE <<d.op>> \o d.line

\* "\n".join(diff)
JoinDiff(diff) == Join([k \in 1..Len(diff) |-> DiffText(diff[k])], <<NL>>)

\* the section added when state.get("diff_result") is true
DiffSection(diff_result) == DiffLead \o diff_result \o DiffTrail

\* the text written to the export file; title and summary are optional
\* texts, comparison_stats and diff_result are None or hold a value
ExportContent(title, login, now, summary, comparison_stats, diff_result) ==
    TitleLead \o Shown(title)
    \o MetadataLead \o login \o DateLead \o StrftimeLong(now)
    \o SummaryLead \o Shown(summary) \o SummaryTrail
    \o (IF comparison_stats # None THEN StatsSection(comparison_stats[1]) ELSE <<>>)
    \o (IF diff_result # None /\ diff_result[1] # <<>>
        THEN DiffSection(diff_result[1]) ELSE <<>>)
    \o FooterLead \o StrftimeLong(now) \o FooterTrail

\* previous_summary.split("## Summary")[1].split("##")[0].strip()
ExtractSummary(previous_summary) ==
    Strip(SplitOn(SplitOn(previous_summary, SummaryMarker)[2], HeadingMarker)[1], Whitespace)

-----------------------------------------------------------------------------
(* The texts of the model.                                                 *)

\* the lines the texts of the model are made of
A2 == <<"#", "#", " ", "A">>
AB2 == <<"#", "#", " ", "A", "B">>
B2 == <<"#", "#", " ", "B">>
LinePool == {A2, AB2, B2, <<"x">>, <<>>}

\* the texts of at most n lines of the pool, joined by newlines
Texts(n) == {Join(ls, <<NL>>) : ls \in UNION {[1..k -> LinePool] : k \in 0..n}}

\* lines with markers of every kind: a heading of level one, two and three,
\* markers inside a line, a marker line without a label, and a plain line
\* that reads as the label of the headings
HeadingPool ==
    {<<"#", " ", "A">>, A2, <<"#", "#", "#", " ", "A">>,
     <<"x", " ", "#", "#", " ", "A">>, <<"#", "#", " ">>, <<"A">>, <<"x">>}

\* the texts of at most n lines of that pool
HeadingTexts(n) ==
    {Join(ls, <<NL>>) : ls \in UNION {[1..k -> HeadingPool] : k \in 0..n}}

\* the summary exported before the one at hand
EarlierSummary == A2 \o <<NL, "x">>

\* the login name and the title written to the file
LoginName == <<"u">>
PageTitle == <<"T">>

\* the titles the annotator is called for
Annotated(old, new) == Differing(SplitSections(old), SplitSections(new))

-----------------------------------------------------------------------------
(* agent/summarizer.py: the run-context and its messages.                  *)

\* the names the import statements of agent/summarizer.py bind (lines 3-14)
SummarizerNames ==
    {"Dict", "Optional", "Path", "datetime", "json", "HumanMessage", "AIMessage",
     "ChatPromptTemplate", "MessagesPlaceholder", "StrOutputParser", "StateGraph",
     "END", "Config", "BaseConfluenceAgent", "AgentState"}

\* whether a global name used in agent/summarizer.py is bound
Bound(name) == name \in SummarizerNames

\* str(e) of the NameError raised for a name that is not bound
NameErrorText(name) == <<"name '", name, "' is not defined">>

\* The content of a message: text is the string cut in pieces, the pieces of
\* an f-string being its literal parts and its values; data is the object
\* the string is the JSON text of, None when it is not JSON.
PlainText(pieces) == [text |-> pieces, data |-> None]

\* json.dumps(obj)
JsonDumps(obj) == [text |-> <<"{", "...", "}">>, data |-> Some(obj)]

\* json.loads(content): a text that does not open a JSON value raises
\* JSONDecodeError
JsonLoads(content) ==
    IF content.text # <<>> /\ content.text[1] = "{" /\ content.data # None
    THEN [raised |-> FALSE, value |-> content.data[1], error |-> <<>>]
    ELSE [raised |-> TRUE, value |-> <<>>,
          error |-> <<"Expecting value: line 1 column 1 (char 0)">>]

HumanMessage(content) == [role |-> "human", content |-> content]
AIMessage(content) == [role |-> "ai", content |-> content]

\* messages[-1]
LastMessage(messages) == messages[Len(messages)]

\* d.get(key, default)
Get(d, key, default) == IF key \in DOMAIN d THEN d[key] ELSE default

\* the truth value of an optional string: None and "" are false
Truthy(x) == x # None /\ x[1] # <<>>

\* state["messages"].append(AIMessage(content=...))
Say(state, pieces) ==
    [state EXCEPT !.messages = Append(@, AIMessage(PlainText(pieces)))]

\* what a stage leaves behind: the run-context and the files of the export
\* directory; whether an exception leaves it (raised, with str(e) in error)
\* or was handled in it (failed); and three records of what it did: the
\* calls of the text generation service for a summary, the file it read as
\* the previous export, whether it made the export directory
Outcome(state, store) ==
    [state |-> state, store |-> store, raised |-> FALSE, error |-> <<>>,
     failed |-> FALSE, generated |-> 0, compared_with |-> None, mkdir |-> FALSE]

-----------------------------------------------------------------------------
(* core/loader.py: ConfluenceDocumentLoader.                               *)

SpaceKey == <<"D", "O", "C">>

\* _create_document(page), with the metadata the workflow reads; whether the
\* page dictionary carries its space depends on the answer of the server
CreateDocument(id, with_space) ==
    [page_content |-> <<"t", "e", "x", "t", " ">> \o id,
     metadata     |-> [id        |-> Some(id),
                       title     |-> Some(PageTitle),
                       space_key |-> IF with_space THEN Some(SpaceKey) ELSE None]]

\* load_content(space_key, page_id, include_children); site is what the
\* Confluence client answers: site.fetch is "raise" when a call of the
\* client raises, "empty" when the space has no page
LoaderLoadContent(site, space_key, page_id, include_children) ==
    IF site.fetch = "raise"
    THEN [raised |-> TRUE, documents |-> <<>>,
          error |-> <<"Error loading content from Confluence: ", "unreachable">>]
    ELSE IF Truthy(page_id)
    THEN [raised |-> FALSE, error |-> <<>>,
          documents |-> <<CreateDocument(page_id[1], site.with_space)>>
                        \o (IF include_children
                            THEN <<CreateDocument(<<"8">>, site.with_space)>> ELSE <<>>)]
    ELSE [raised |-> FALSE, error |-> <<>>,
          documents |-> IF site.fetch = "empty" THEN <<>>
                        ELSE <<CreateDocument(<<"7">>, site.with_space),
                               CreateDocument(<<"8">>, site.with_space)>>]

-----------------------------------------------------------------------------
(* core/persona.py: PersonaManager.                                        *)

\* the keys of self.personas after __init__
DefaultPersonas == {"technical", "business", "project", "user"}

\* the prompt __init__ stores under a key, of which only the opening is kept
DefaultPrompt(name) == <<"You are a ", name>>

\* PersonaManager(): self.personas after __init__
NewPersonaManager == [personas |-> [n \in DefaultPersonas |-> DefaultPrompt(n)]]

\* get_persona_prompt(persona)
GetPersonaPrompt(self, persona) ==
    IF persona \notin DOMAIN self.personas
    THEN [raised |-> TRUE, exception |-> "ValueError",
          error |-> <<"Unknown persona: ", persona>>, value |-> <<>>]
    ELSE [raised |-> FALSE, exception |-> "", error |-> <<>>,
          value |-> self.personas[persona]]

\* add_persona(name, prompt): self.personas[name] = prompt
AddPersona(self, name, prompt) ==
    [raised |-> FALSE, exception |-> "", error |-> <<>>,
     self   |-> [self EXCEPT !.personas =
                    [n \in DOMAIN self.personas \cup {name} |->
                        IF n = name THEN prompt ELSE self.personas[n]]]]

\* remove_persona(name): del self.personas[name]
RemovePersona(self, name) ==
    IF name \notin DOMAIN self.personas
    THEN [raised |-> TRUE, exception |-> "ValueError",
          error |-> <<"Unknown persona: ", name>>, self |-> self]
    ELSE [raised |-> FALSE, exception |-> "", error |-> <<>>,
          self   |-> [self EXCEPT !.personas =
                         [n \in DOMAIN self.personas \ {name} |-> self.personas[n]]]]

\* mutant of ListPersonas: self.personas itself is handed out
ListPersonasSameObject(self) == [shared |-> TRUE, dict |-> self.personas]

\* list_personas(): self.personas.copy(). The dictionary handed out is an
\* object of its own (shared is FALSE): what the caller does to it is not
\* done to self.personas.
ListPersonas(self) == [shared |-> FALSE, dict |-> self.personas]

-----------------------------------------------------------------------------
(* The export directory.                                                   *)

\* the characters of file names, in the order of their code points
NameChars ==
    <<".", "0", "1", "2", "3", "4", "5", "6", "7", "8", "9", "C", "D", "N", "O",
      "_", "a", "c", "d", "e", "k", "m", "n", "o", "p", "s", "u", "w">>

Ord(c) == CHOOSE i \in 1..Len(NameChars) : NameChars[i] = c

\* a < b for two strings
RECURSIVE StrLess(_, _)
StrLess(a, b) ==
    IF b = <<>> THEN FALSE
    ELSE IF a = <<>> THEN TRUE
    ELSE IF Head(a) = Head(b) THEN StrLess(Tail(a), Tail(b))
    ELSE Ord(Head(a)) < Ord(Head(b))

\* sorted(names, reverse=True)
RECURSIVE SortedReverse(_)
SortedReverse(names) ==
    IF names = {} THEN <<>>
    ELSE LET top == CHOOSE n \in names : \A m \in names \ {n} : StrLess(m, n)
         IN  <<top>> \o SortedReverse(names \ {top})

Underscore == <<"_">>
SpaceWord == <<"s", "p", "a", "c", "e">>
UnknownWord == <<"u", "n", "k", "n", "o", "w", "n">>
DotMd == <<".", "m", "d">>

\* the part of the file name and of the glob pattern before the timestamp:
\* f"{space_key}_{page_id}_" if page_id else f"{space_key}_space_"
NamePrefix(space_key, page_id) ==
    IF Truthy(page_id)
    THEN Shown(space_key) \o Underscore \o page_id[1] \o Underscore
    ELSE Shown(space_key) \o Underscore \o SpaceWord \o Underscore

\* filename of _export_summary
FileName(space_key, page_id, now) ==
    NamePrefix(space_key, page_id) \o StrftimeStamp(now) \o DotMd

\* whether name matches the pattern prefix + "*.md"
GlobMatches(name, prefix) ==
    /\ Len(name) >= Len(prefix) + Len(DotMd)
    /\ SubSeq(name, 1, Len(prefix)) = prefix
    /\ SubSeq(name, Len(name) - Len(DotMd) + 1, Len(name)) = DotMd

\* sorted(export_dir.glob(pattern), reverse=True); the store maps the name
\* of each file of the directory to its text
PreviousFiles(store, prefix) ==
    SortedReverse({n \in DOMAIN store : GlobMatches(n, prefix)})

\* file_path.write_text(content)
WriteText(store, name, content) ==
    [n \in DOMAIN store \cup {name} |-> IF n = name THEN content ELSE store[n]]

-----------------------------------------------------------------------------
(* agent/summarizer.py: the five stages of the workflow.                   *)

\* an exception raised inside the try block of a stage: str(e) in pieces,
\* and the run-context as the statements before the raise left it
Raise(state, store, pieces) ==
    [Outcome(state, store) EXCEPT !.raised = TRUE, !.error = pieces]

\* mutant of Except: the handler raises the exception again
ExceptReraise(out, doing) == out

\* except Exception as e: state["messages"].append(AIMessage(content=
\* f"Error <doing>: {str(e)}")); return state
Except(out, doing) ==
    IF out.raised
    THEN [out EXCEPT !.state = Say(out.state, <<"Error", doing>> \o out.error),
                     !.raised = FALSE, !.error = <<>>, !.failed = TRUE]
    ELSE out

\* params = json.loads(messages[-1].content), the first statement of four of
\* the stages
LastParams(state) == JsonLoads(LastMessage(state.messages).content)

\* the try block of _load_content
LoadContentBody(state, env, store) ==
    LET parsed == LastParams(state)
        params == parsed.value
        loaded == LoaderLoadContent(env, params["space_key"],
                                    Get(params, "page_id", None),
                                    Get(params, "include_children", FALSE))
    IN  IF parsed.raised THEN Raise(state, store, parsed.error)
        ELSE IF loaded.raised THEN Raise(state, store, loaded.error)
        ELSE Outcome([state EXCEPT !.documents = loaded.documents,
                                   !.metadata = IF loaded.documents # <<>>
                                                THEN loaded.documents[1].metadata
                                                ELSE @],
                     store)

\* _load_content
LoadContent(state, env, store) ==
    Except(LoadContentBody(state, env, store), " loading content: ")

\* _prepare_documents: state["documents"] is always there
PrepareDocuments(state, env, store) ==
    Except(Outcome(Say(state, <<"Documents loaded successfully. Preparing for summarization...">>),
                   store),
           " preparing documents: ")

\* the try block of _generate_summary
GenerateSummaryBody(state, env, store) ==
    LET parsed  == LastParams(state)
        params  == parsed.value
        persona == GetPersonaPrompt(NewPersonaManager, Get(params, "persona", "technical"))
    IN  IF parsed.raised THEN Raise(state, store, parsed.error)
        ELSE IF persona.raised THEN Raise(state, store, persona.error)
        ELSE IF env.llm_raises
        THEN [Raise(state, store, <<"service error">>) EXCEPT !.generated = 1]
        ELSE [Outcome(Say([state EXCEPT !.summary = Some(env.llm_text)],
                          <<"Summary generated successfully.">>), store)
                 EXCEPT !.generated = 1]

\* _generate_summary
GenerateSummary(state, env, store) ==
    Except(GenerateSummaryBody(state, env, store), " generating summary: ")

\* the part of _compare_summaries that follows the reading of the previous
\* file: lines 157-177
CompareWith(state, env, store, previous_summary) ==
    IF ~Contains(previous_summary, SummaryMarker) THEN Outcome(state, store)
    ELSE IF state.summary = None
    THEN \* new_content.splitlines() in _calculate_comparison_stats
         Raise(state, store, <<"'NoneType' object has no attribute 'splitlines'">>)
    ELSE LET old      == ExtractSummary(previous_summary)
             new      == state.summary[1]
             failing  == IF env.llm_raises THEN Annotated(old, new) ELSE {}
             stats    == CalculateComparisonStats(old, new, failing)
             compared == [state EXCEPT !.comparison_stats = Some(stats)]
             diff     == DiffOfLines(SplitLines(old), SplitLines(new))
         IN  IF ~Bound("unified_diff")
             THEN Raise(compared, store, NameErrorText("unified_diff"))
             ELSE IF diff # <<>>
             THEN Outcome(Say([compared EXCEPT !.diff_result = Some(JoinDiff(diff))],
                              <<"Differences from previous summary found.">>), store)
             ELSE Outcome(Say(compared, <<"No differences from previous summary.">>), store)

\* the try block of _compare_summaries
CompareSummariesBody(state, env, store) ==
    LET parsed   == LastParams(state)
        previous == PreviousFiles(store,
                                  NamePrefix(Get(state.metadata, "space_key", Some(UnknownWord)),
                                             Get(state.metadata, "id", None)))
    IN  IF parsed.raised THEN Raise(state, store, parsed.error)
        ELSE IF Len(previous) > 1
        THEN [CompareWith(state, env, store, store[previous[2]])
                 EXCEPT !.compared_with = Some(previous[2])]
        ELSE Outcome(state, store)

\* _compare_summaries
CompareSummaries(state, env, store) ==
    Except(CompareSummariesBody(state, env, store), " comparing summaries: ")

\* mutant of ExportSummaryBody: the parameters are taken from the first
\* message and the login name is at hand, so that the file is written
ExportSummaryBodyWriting(state, env, store) ==
    IF ~Get(state.messages[1].content.data[1], "export", FALSE)
    THEN Outcome(state, store)
    ELSE [Outcome(Say([state EXCEPT !.export_path = Some(<<"f">>)],
                      <<"Summary exported to: ", <<"f">>>>),
                  [n \in DOMAIN store \cup {<<"f">>} |->
                      IF n = <<"f">>
                      THEN TitleLead \o SummaryLead
                           \o (IF state.summary = None THEN NoneText ELSE state.summary[1])
                      ELSE store[n]])
             EXCEPT !.mkdir = TRUE]

\* the try block of _export_summary
ExportSummaryBody(state, env, store) ==
    LET parsed   == LastParams(state)
        params   == parsed.value
        filename == FileName(Get(state.metadata, "space_key", Some(UnknownWord)),
                             Get(state.metadata, "id", None), env.now)
        content  == ExportContent(Get(state.metadata, "title", Some(DefaultTitle)),
                                  LoginName, env.now, state.summary,
                                  state.comparison_stats, state.diff_result)
    IN  IF parsed.raised THEN Raise(state, store, parsed.error)
        ELSE IF ~Get(params, "export", FALSE) THEN Outcome(state, store)
        ELSE IF ~Bound("os")
        THEN \* os.getlogin() inside the f-string of the content
             [Raise(state, store, NameErrorText("os")) EXCEPT !.mkdir = TRUE]
        ELSE [Outcome(Say([state EXCEPT !.export_path = Some(filename)],
                          <<"Summary exported to: ", filename>>),
                      WriteText(store, filename, content))
                 EXCEPT !.mkdir = TRUE]

\* _export_summary
ExportSummary(state, env, store) ==
    Except(ExportSummaryBody(state, env, store), " exporting summary: ")

-----------------------------------------------------------------------------
(* The comparison as a state machine: two texts are given, and one of the  *)
(* two operations is applied to them.                                      *)

NoReport == [raised |-> FALSE]
NoDisplay == [raised |-> ""]

\* no text is being compared
EngineIdle ==
    /\ old_content = <<>>
    /\ new_content = <<>>
    /\ phase = "idle"
    /\ llm_failing = {}
    /\ report = NoReport
    /\ shown = NoDisplay

\* no call of unified_diff alone is under way
DiffIdle ==
    /\ a_lines = <<>>
    /\ b_lines = <<>>
    /\ patch = <<>>
    /\ diff_phase = "idle"

\* no export file is being written and read back
TripIdle ==
    /\ export_in = <<>>
    /\ export_file = None
    /\ extracted = None
    /\ trip_phase = "idle"

\* {} of Python
EmptyDict == [k \in {} |-> None]

\* the record of a run: the nodes run, those whose handler caught an
\* exception, what the stages did, the number of the run and the files of
\* the directory when it began
NoLog == [trace |-> <<>>, failed |-> {}, generated |-> 0, compared_with |-> None,
          mkdir |-> FALSE, runs |-> 0, store_before |-> EmptyDict]

\* nothing of the workflow is running
PipelineIdle ==
    /\ pc = "idle"
    /\ agent_state = <<>>
    /\ export_dir = EmptyDict
    /\ call_kwargs = <<>>
    /\ world = <<>>
    /\ result = None
    /\ log = NoLog

\* no PersonaManager is in use
NoPersonaCall == [op |-> "none"]
PersonaIdle ==
    /\ manager = <<>>
    /\ listing = None
    /\ persona_out = NoPersonaCall
    /\ persona_calls = <<>>

InitEngine ==
    /\ DiffIdle
    /\ TripIdle
    /\ PipelineIdle
    /\ PersonaIdle
    /\ old_content \in Texts(MaxLines)
    /\ new_content \in Texts(MaxLines)
    /\ phase = "ready"
    /\ llm_failing = {}
    /\ report = NoReport
    /\ shown = NoDisplay

\* a call of _calculate_comparison_stats; each call of the text generation
\* service made during it may fail
Compare ==
    /\ phase = "ready"
    /\ llm_failing' \in SUBSET Annotated(old_content, new_content)
    /\ report' = CalculateComparisonStats(old_content, new_content, llm_failing')
    /\ phase' = "compared"
    /\ UNCHANGED <<old_content, new_content, shown>>
    /\ UNCHANGED diff_vars
    /\ UNCHANGED trip_vars
    /\ UNCHANGED pipeline_vars
    /\ UNCHANGED persona_vars

\* a call of display_diff
Display ==
    /\ phase = "ready"
    /\ shown' = DisplayDiff(old_content, new_content)
    /\ phase' = "displayed"
    /\ UNCHANGED <<old_content, new_content, llm_failing, report>>
    /\ UNCHANGED diff_vars
    /\ UNCHANGED trip_vars
    /\ UNCHANGED pipeline_vars
    /\ UNCHANGED persona_vars

NextEngine == Compare \/ Display

SpecEngine == InitEngine /\ [][NextEngine]_vars

\* the same two operations on texts with markers of every kind
InitSections ==
    /\ DiffIdle
    /\ TripIdle
    /\ PipelineIdle
    /\ PersonaIdle
    /\ old_content \in HeadingTexts(MaxLines)
    /\ new_content \in HeadingTexts(MaxLines - 1)
    /\ phase = "ready"
    /\ llm_failing = {}
    /\ report = NoReport
    /\ shown = NoDisplay

SpecSections == InitSections /\ [][NextEngine]_vars

-----------------------------------------------------------------------------
(* unified_diff alone, on two sequences of lines.                          *)

\* k times the line "c"
Pad(k) == [i \in 1..k |-> <<"c">>]

\* the sequences of at most n lines "x" or "y"
EdgeLines(n) == UNION {[1..k -> {<<"x">>, <<"y">>}] : k \in 0..n}

\* the sequences handed to unified_diff: some lines, a common middle that is
\* empty or long, some lines
LineSeqs == {e1 \o Pad(k) \o e2 : e1 \in EdgeLines(MaxEdge), e2 \in EdgeLines(MaxEdge),
                                    k \in {0, PadLen}}

InitDiff ==
    /\ EngineIdle
    /\ TripIdle
    /\ PipelineIdle
    /\ PersonaIdle
    /\ a_lines \in LineSeqs
    /\ b_lines \in LineSeqs
    /\ patch = <<>>
    /\ diff_phase = "ready"

\* the call of unified_diff
RunDiff ==
    /\ diff_phase = "ready"
    /\ patch' = DiffOfLines(a_lines, b_lines)
    /\ diff_phase' = "done"
    /\ UNCHANGED <<a_lines, b_lines>>
    /\ UNCHANGED engine_vars
    /\ UNCHANGED trip_vars
    /\ UNCHANGED pipeline_vars
    /\ UNCHANGED persona_vars

NextDiff == RunDiff

SpecDiff == InitDiff /\ [][NextDiff]_vars

-----------------------------------------------------------------------------
(* The export file written by _export_summary and read back by             *)
(* _compare_summaries.                                                     *)

\* what _export_summary finds in the run-context: a summary, and the
\* comparison with the earlier summary or none
ExportInputs ==
    {[summary |-> Some(s), comparison_stats |-> c, diff_result |-> d] :
        s \in Texts(MaxLines),
        c \in {None},
        d \in {None}}
    \cup
    {[summary |-> Some(s),
      comparison_stats |-> Some(CalculateComparisonStats(EarlierSummary, s, {})),
      diff_result |-> d] :
        s \in Texts(MaxLines),
        d \in {None}}
    \cup
    {[summary |-> Some(s),
      comparison_stats |-> Some(CalculateComparisonStats(EarlierSummary, s, {})),
      diff_result |-> Some(JoinDiff(UnifiedDiff(SplitLines(EarlierSummary), SplitLines(s))))] :
        s \in Texts(MaxLines)}

InitTrip ==
    /\ EngineIdle
    /\ DiffIdle
    /\ PipelineIdle
    /\ PersonaIdle
    /\ export_in \in ExportInputs
    /\ export_file = None
    /\ extracted = None
    /\ trip_phase = "ready"

\* file_path.write_text(content)
WriteExport ==
    /\ trip_phase = "ready"
    /\ export_file' = Some(ExportContent(Some(PageTitle), LoginName, 0, export_in.summary,
                                         export_in.comparison_stats, export_in.diff_result))
    /\ trip_phase' = "written"
    /\ UNCHANGED <<export_in, extracted>>
    /\ UNCHANGED engine_vars
    /\ UNCHANGED diff_vars
    /\ UNCHANGED pipeline_vars
    /\ UNCHANGED persona_vars

\* previous_file.read_text() and the extraction of the summary section
ReadBack ==
    /\ trip_phase = "written"
    /\ extracted' = IF Contains(export_file[1], SummaryMarker)
                    THEN Some(ExtractSummary(export_file[1])) ELSE None
    /\ trip_phase' = "read"
    /\ UNCHANGED <<export_in, export_file>>
    /\ UNCHANGED engine_vars
    /\ UNCHANGED diff_vars
    /\ UNCHANGED pipeline_vars
    /\ UNCHANGED persona_vars

NextTrip == WriteExport \/ ReadBack

SpecTrip == InitTrip /\ [][NextTrip]_vars

-----------------------------------------------------------------------------
(* The summary workflow as a state machine: summarize() builds the          *)
(* run-context, the graph runs its nodes along its edges, and summarize()  *)
(* returns the result. The export directory outlives the runs.             *)

\* mutant of Edges: the export node put before the compare node
EdgesExportBeforeCompare ==
    [load_content      |-> "prepare_documents",
     prepare_documents |-> "generate_summary",
     generate_summary  |-> "export_summary",
     export_summary    |-> "compare_summaries",
     compare_summaries |-> "END"]

\* workflow.set_entry_point and workflow.add_edge
EntryPoint == "load_content"
Edges ==
    [load_content      |-> "prepare_documents",
     prepare_documents |-> "generate_summary",
     generate_summary  |-> "compare_summaries",
     compare_summaries |-> "export_summary",
     export_summary    |-> "END"]

\* initial_state of summarize()
InitialState(kwargs) ==
    [messages         |-> <<HumanMessage(JsonDumps(kwargs))>>,
     documents        |-> <<>>,
     summary          |-> None,
     metadata         |-> EmptyDict,
     export_path      |-> None,
     previous_summary |-> None,
     diff_result      |-> None,
     comparison_stats |-> None]

\* the dictionary summarize() returns
ResultOf(final_state) ==
    [summary          |-> final_state.summary,
     export_path      |-> final_state.export_path,
     messages         |-> [k \in 1..Len(final_state.messages) |->
                              final_state.messages[k].content],
     diff_result      |-> final_state.diff_result,
     comparison_stats |-> final_state.comparison_stats]

\* the arguments of summarize()
Kwargs ==
    {[space_key        |-> SpaceKey,
      page_id          |-> p,
      include_children |-> FALSE,
      persona          |-> "technical",
      context          |-> None,
      export           |-> x,
      export_dir       |-> "summaries"] : p \in {None, Some(<<"7">>)}, x \in BOOLEAN}

\* the summaries the text generation service returns
ServiceTexts == {A2 \o <<NL, "x">>}

\* what the collaborators do during one run: the Confluence client, the
\* text generation service and the clock
Envs ==
    [fetch : {"raise", "empty", "pages"}, with_space : BOOLEAN,
     llm_raises : BOOLEAN, llm_text : ServiceTexts, now : 2..3]

\* an export of an earlier version of the program, and a file without the
\* summary section
EarlierExport(now) ==
    ExportContent(Some(PageTitle), LoginName, now, Some(EarlierSummary), None, None)
ForeignFile == <<"x">>

\* the export directories the runs start from
Stores ==
    LET page1  == FileName(Some(SpaceKey), Some(<<"7">>), 1)
        page2  == FileName(Some(SpaceKey), Some(<<"7">>), 2)
        space1 == FileName(Some(SpaceKey), None, 1)
        space2 == FileName(Some(SpaceKey), None, 2)
    IN  {EmptyDict,
         WriteText(EmptyDict, page1, EarlierExport(1)),
         WriteText(WriteText(EmptyDict, page1, EarlierExport(1)), page2, EarlierExport(2)),
         WriteText(WriteText(EmptyDict, page1, ForeignFile), page2, EarlierExport(2)),
         WriteText(WriteText(EmptyDict, page1, ForeignFile), page2, ForeignFile),
         WriteText(WriteText(EmptyDict, space1, EarlierExport(1)), space2, EarlierExport(2))}

InitPipeline ==
    /\ EngineIdle
    /\ DiffIdle
    /\ TripIdle
    /\ PersonaIdle
    /\ pc = "idle"
    /\ agent_state = <<>>
    /\ export_dir \in Stores
    /\ call_kwargs = <<>>
    /\ world = <<>>
    /\ result = None
    /\ log = NoLog

\* a call of summarize(): the run-context is built and the graph entered
Summarize ==
    /\ pc \in {"idle", "returned"}
    /\ log.runs < MaxRuns
    /\ call_kwargs' \in Kwargs
    /\ world' \in Envs
    /\ agent_state' = InitialState(call_kwargs')
    /\ result' = None
    /\ log' = [NoLog EXCEPT !.runs = log.runs + 1, !.store_before = export_dir]
    /\ pc' = EntryPoint
    /\ UNCHANGED export_dir
    /\ UNCHANGED engine_vars
    /\ UNCHANGED diff_vars
    /\ UNCHANGED trip_vars
    /\ UNCHANGED persona_vars

\* the graph has run a node, out is what the stage left behind: the
\* run-context and the directory are taken over and the edge followed; an
\* exception that leaves the stage leaves graph.invoke and summarize() too
Ran(node, out) ==
    /\ agent_state' = out.state
    /\ export_dir' = out.store
    /\ log' = [log EXCEPT !.trace = Append(@, node),
                          !.failed = IF out.failed THEN @ \cup {node} ELSE @,
                          !.generated = @ + out.generated,
                          !.compared_with = IF out.compared_with # None
                                            THEN out.compared_with ELSE @,
                          !.mkdir = @ \/ out.mkdir]
    /\ pc' = IF out.raised THEN "raised" ELSE Edges[node]
    /\ UNCHANGED <<call_kwargs, world, result>>
    /\ UNCHANGED engine_vars
    /\ UNCHANGED diff_vars
    /\ UNCHANGED trip_vars
    /\ UNCHANGED persona_vars

LoadContentNode ==
    /\ pc = "load_content"
    /\ Ran("load_content", LoadContent(agent_state, world, export_dir))

PrepareDocumentsNode ==
    /\ pc = "prepare_documents"
    /\ Ran("prepare_documents", PrepareDocuments(agent_state, world, export_dir))

GenerateSummaryNode ==
    /\ pc = "generate_summary"
    /\ Ran("generate_summary", GenerateSummary(agent_state, world, export_dir))

CompareSummariesNode ==
    /\ pc = "compare_summaries"
    /\ Ran("compare_summaries", CompareSummaries(agent_state, world, export_dir))

ExportSummaryNode ==
    /\ pc = "export_summary"
    /\ Ran("export_summary", ExportSummary(agent_state, world, export_dir))

\* the graph has reached END: summarize() returns
Return ==
    /\ pc = "END"
    /\ result' = Some(ResultOf(agent_state))
    /\ pc' = "returned"
    /\ UNCHANGED <<agent_state, export_dir, call_kwargs, world, log>>
    /\ UNCHANGED engine_vars
    /\ UNCHANGED diff_vars
    /\ UNCHANGED trip_vars
    /\ UNCHANGED persona_vars

NextPipeline ==
    \/ Summarize
    \/ LoadContentNode
    \/ PrepareDocumentsNode
    \/ GenerateSummaryNode
    \/ CompareSummariesNode
    \/ ExportSummaryNode
    \/ Return

SpecPipeline == InitPipeline /\ [][NextPipeline]_vars

\* graph.invoke runs the nodes one after the other without waiting for
\* anything, and summarize() returns as soon as the graph has ended: a node
\* that can run does run
SpecPipelineFair ==
    /\ SpecPipeline
    /\ WF_vars(LoadContentNode)
    /\ WF_vars(PrepareDocumentsNode)
    /\ WF_vars(GenerateSummaryNode)
    /\ WF_vars(CompareSummariesNode)
    /\ WF_vars(ExportSummaryNode)
    /\ WF_vars(Return)

-----------------------------------------------------------------------------
(* A PersonaManager as a state machine: its methods are called in any      *)
(* order, and the caller changes the dictionary list_personas() gave it.   *)

\* the names and the prompts of the calls
PersonaNames == {"technical", "qa"}
Prompts == {<<"p1">>, <<"p2">>}

PersonaCall(op, name, prompt) == [op |-> op, name |-> name, prompt |-> prompt]

\* the outcome of a call, as the caller sees it
PersonaOutcome(op, name, out) ==
    [op |-> op, name |-> name, raised |-> out.raised, exception |-> out.exception,
     error |-> out.error]

\* the dictionary handed out is the manager's own when it is shared, and
\* then shows what the manager's methods do to self.personas
Listed(self) ==
    IF listing # None /\ listing[1].shared
    THEN Some([listing[1] EXCEPT !.dict = self.personas])
    ELSE listing

InitPersona ==
    /\ EngineIdle
    /\ DiffIdle
    /\ TripIdle
    /\ PipelineIdle
    /\ manager = NewPersonaManager
    /\ listing = None
    /\ persona_out = NoPersonaCall
    /\ persona_calls = <<>>

\* a call of get_persona_prompt
GetPersonaPromptCall ==
    /\ Len(persona_calls) < MaxCalls
    /\ \E name \in PersonaNames :
           /\ persona_out' = [op     |-> "get_persona_prompt",
                              name   |-> name,
                              raised |-> GetPersonaPrompt(manager, name).raised,
                              exception |-> GetPersonaPrompt(manager, name).exception,
                              error  |-> GetPersonaPrompt(manager, name).error,
                              value  |-> GetPersonaPrompt(manager, name).value]
           /\ persona_calls' = Append(persona_calls,
                                      PersonaCall("get_persona_prompt", name, <<>>))
    /\ UNCHANGED <<manager, listing>>
    /\ UNCHANGED engine_vars
    /\ UNCHANGED diff_vars
    /\ UNCHANGED trip_vars
    /\ UNCHANGED pipeline_vars

\* a call of add_persona
AddPersonaCall ==
    /\ Len(persona_calls) < MaxCalls
    /\ \E name \in PersonaNames, prompt \in Prompts :
           /\ manager' = AddPersona(manager, name, prompt).self
           /\ persona_out' = PersonaOutcome("add_persona", name,
                                            AddPersona(manager, name, prompt))
           /\ persona_calls' = Append(persona_calls,
                                      PersonaCall("add_persona", name, prompt))
    /\ listing' = Listed(manager')
    /\ UNCHANGED engine_vars
    /\ UNCHANGED diff_vars
    /\ UNCHANGED trip_vars
    /\ UNCHANGED pipeline_vars

\* a call of remove_persona
RemovePersonaCall ==
    /\ Len(persona_calls) < MaxCalls
    /\ \E name \in PersonaNames :
           /\ manager' = RemovePersona(manager, name).self
           /\ persona_out' = PersonaOutcome("remove_persona", name,
                                            RemovePersona(manager, name))
           /\ persona_calls' = Append(persona_calls,
                                      PersonaCall("remove_persona", name, <<>>))
    /\ listing' = Listed(manager')
    /\ UNCHANGED engine_vars
    /\ UNCHANGED diff_vars
    /\ UNCHANGED trip_vars
    /\ UNCHANGED pipeline_vars

\* a call of list_personas
ListPersonasCall ==
    /\ Len(persona_calls) < MaxCalls
    /\ listing' = Some(ListPersonas(manager))
    /\ persona_out' = [op |-> "list_personas", value |-> ListPersonas(manager).dict]
    /\ persona_calls' = Append(persona_calls, PersonaCall("list_personas", "", <<>>))
    /\ UNCHANGED manager
    /\ UNCHANGED engine_vars
    /\ UNCHANGED diff_vars
    /\ UNCHANGED trip_vars
    /\ UNCHANGED pipeline_vars

\* the caller changes the dictionary it was handed: d[name] = "mine" or
\* del d[name]; a dictionary shared with the manager is the manager's too
MutateListing ==
    /\ Len(persona_calls) < MaxCalls
    /\ listing # None
    /\ \E name \in PersonaNames, del \in BOOLEAN :
           /\ del => name \in DOMAIN listing[1].dict
           /\ listing' = Some([listing[1] EXCEPT !.dict =
                  IF del
                  THEN [n \in DOMAIN listing[1].dict \ {name} |-> listing[1].dict[n]]
                  ELSE [n \in DOMAIN listing[1].dict \cup {name} |->
                           IF n = name THEN <<"mine">> ELSE listing[1].dict[n]]])
           /\ persona_calls' = Append(persona_calls,
                                      PersonaCall("mutate_listing", name, <<>>))
    /\ manager' = IF listing[1].shared
                  THEN [manager EXCEPT !.personas = listing'[1].dict]
                  ELSE manager
    /\ persona_out' = [op |-> "mutate_listing"]
    /\ UNCHANGED engine_vars
    /\ UNCHANGED diff_vars
    /\ UNCHANGED trip_vars
    /\ UNCHANGED pipeline_vars

NextPersona ==
    \/ GetPersonaPromptCall
    \/ AddPersonaCall
    \/ RemovePersonaCall
    \/ ListPersonasCall
    \/ MutateListing

SpecPersona == InitPersona /\ [][NextPersona]_vars

-----------------------------------------------------------------------------
(* Vocabulary of the properties.                                           *)

OldTitles == SectionTitles(SplitSections(old_content))
NewTitles == SectionTitles(SplitSections(new_content))

\* the comparison has returned its stats
Compared == phase = "compared" /\ ~report.raised

\* the titles that have an entry in section_changes
ListedTitles == {c.section : c \in report.section_changes}

\* the body lines the engine compares for title t
OldBodyOf(t) == BodyLines(FirstTitled(SplitSections(old_content), t))
NewBodyOf(t) == BodyLines(FirstTitled(SplitSections(new_content), t))

\* the number of lines of a text, counted on its characters: one per
\* newline, and one more for a last line that no newline ends
LineCount(s) ==
    Cardinality({i \in 1..Len(s) : s[i] = NL})
    + (IF s # <<>> /\ s[Len(s)] # NL THEN 1 ELSE 0)

\* The sections of a document as a reader sees them: a section is a heading
\* line, then the lines up to the next heading line.
IsHeadingLine(l) == Len(l) >= 3 /\ SubSeq(l, 1, 3) = <<"#", "#", " ">>
HeadingIndexes(s) == {k \in 1..Len(SplitLines(s)) : IsHeadingLine(SplitLines(s)[k])}
HeadingTitles(s) == {Strip(SplitLines(s)[k], HashSpace) : k \in HeadingIndexes(s)}
BodyUnder(s, t) ==
    LET ls  == SplitLines(s)
        k   == Min({j \in HeadingIndexes(s) : Strip(ls[j], HashSpace) = t})
        nxt == Min({j \in HeadingIndexes(s) : j > k} \cup {Len(ls) + 1})
    IN  SubSeq(ls, k + 1, nxt - 1)

\* a document that opens with a heading and uses every title once
WellSectioned(s) ==
    /\ 1 \in HeadingIndexes(s)
    /\ Cardinality(HeadingTitles(s)) = Cardinality(HeadingIndexes(s))

\* the titles of both versions whose body a reader finds changed
TrulyChanged ==
    {t \in HeadingTitles(old_content) \cap HeadingTitles(new_content) :
        BodyUnder(old_content, t) # BodyUnder(new_content, t)}

-----------------------------------------------------------------------------
(* Properties of the comparison engine, checked under SpecEngine.          *)

\* C1 (as claimed): the added titles, the removed titles and the titles of
\* the changed sections partition old_titles \cup new_titles.
C1_Partition ==
    Compared =>
        LET added   == NewTitles \ OldTitles
            removed == OldTitles \ NewTitles
            changed == ListedTitles
        IN  /\ added \cup removed \cup changed = OldTitles \cup NewTitles
            /\ added \cap removed = {}
            /\ added \cap changed = {}
            /\ removed \cap changed = {}

\* C1 (amended): the added titles, the removed titles and the titles common
\* to both versions (the sections examined for change) partition
\* old_titles \cup new_titles; the sections listed as changed are among the
\* common titles, each listed once, so a common title whose bodies do not
\* differ is in none of the three groups of the claim.
C1_PartitionAmended ==
    Compared =>
        /\ report.added_sections + report.removed_sections
               + Cardinality(report.examined) = Cardinality(OldTitles \cup NewTitles)
        /\ ListedTitles \subseteq report.examined
        /\ report.examined \subseteq OldTitles \cap NewTitles
        /\ Cardinality(report.section_changes) = Cardinality(ListedTitles)

\* C1 witness: a comparison with an added, a removed, a listed and an
\* unchanged common title.
C1_Witness ==
    /\ Compared
    /\ report.added_sections > 0
    /\ report.removed_sections > 0
    /\ report.section_changes # {}
    /\ (OldTitles \cap NewTitles) \ ListedTitles # {}

\* C2: line_difference is new_line_count - old_line_count, both counted on
\* the whole texts.
C2_LineDifference ==
    Compared =>
        /\ report.line_difference = report.new_line_count - report.old_line_count
        /\ report.old_line_count = LineCount(old_content)
        /\ report.new_line_count = LineCount(new_content)

\* C2 witness: the text shrinks, and a listed section changes by another
\* number of lines than the whole text does.
C2_Witness ==
    /\ Compared
    /\ report.line_difference < 0
    /\ \E c \in report.section_changes :
           c.new_line_count - c.old_line_count # report.line_difference

\* C3: added_sections and removed_sections are the sizes of new - old and
\* old - new, and the loop examines exactly the titles of old & new.
C3_SetDifferences ==
    Compared =>
        /\ report.added_sections = Cardinality(NewTitles \ OldTitles)
        /\ report.removed_sections = Cardinality(OldTitles \ NewTitles)
        /\ report.examined = OldTitles \cap NewTitles

\* C3 witness: titles are added, removed and examined in one comparison, and
\* more are added than removed.
C3_Witness ==
    /\ Compared
    /\ report.added_sections > report.removed_sections
    /\ report.removed_sections > 0
    /\ report.examined # {}

\* C4 (as claimed): sections are paired only when their titles are equal, in
\* the engine and in display_diff.
C4_ExactTitlePairing ==
    /\ Compared =>
           \A t \in report.examined :
               /\ SectionTitle(FirstTitled(SplitSections(old_content), t)) = t
               /\ SectionTitle(FirstTitled(SplitSections(new_content), t)) = t
    /\ phase = "displayed" =>
           \A k \in 1..Len(shown.paired) :
               DisplayTitle(shown.paired[k].new_section) = shown.paired[k].section

\* C5 (as claimed): changed_sections is the number of entries of
\* section_changes, so a common section with identical bodies is not counted.
C5_ChangedCountIsListLength ==
    Compared => report.changed_sections = Cardinality(report.section_changes)

\* the case of C6: the new version keeps every section, adds one, and
\* changes the body of exactly one existing section
C6_Scenario ==
    /\ Compared
    /\ WellSectioned(old_content)
    /\ WellSectioned(new_content)
    /\ HeadingTitles(old_content) \subseteq HeadingTitles(new_content)
    /\ Cardinality(HeadingTitles(new_content) \ HeadingTitles(old_content)) = 1
    /\ Cardinality(TrulyChanged) = 1

\* C6 (as claimed): in that case one section is added, none is removed, and
\* the sections listed as changed are exactly those whose body differs.
C6_ChangedAreTheDiffering ==
    C6_Scenario =>
        /\ report.added_sections = 1
        /\ report.removed_sections = 0
        /\ ListedTitles = TrulyChanged

\* C7 (as claimed): a text compared with itself has no changed, added or
\* removed section, line_difference 0 and an empty diff.
C7_SelfComparisonIsEmpty ==
    (Compared /\ old_content = new_content) =>
        /\ report.changed_sections = 0
        /\ report.section_changes = {}
        /\ report.added_sections = 0
        /\ report.removed_sections = 0
        /\ report.line_difference = 0
        /\ UnifiedDiff(SplitLines(old_content), SplitLines(new_content)) = <<>>

\* C8 (as claimed): diff_line_count of a listed section is its signed net
\* line change, new body line count minus old body line count.
C8_DiffLineCountIsNetChange ==
    Compared =>
        \A c \in report.section_changes :
            c.diff_line_count = c.new_line_count - c.old_line_count

\* C9: when the annotator fails for a section no exception leaves the
\* comparison, that section's change_summary is the error marker, and every
\* section whose bodies differ is listed whatever calls failed.
C9_AnnotatorFailureIsIsolated ==
    phase = "compared" =>
        /\ ~report.raised
        /\ ListedTitles = {t \in OldTitles \cap NewTitles : OldBodyOf(t) # NewBodyOf(t)}
        /\ \A c \in report.section_changes :
               IF c.section \in llm_failing
               THEN c.change_summary = <<"Error analyzing changes: ", "b", "o", "o", "m">>
               ELSE c.change_summary = <<"o", "k">>

\* C9 witness: two sections are listed, the annotator failed for one of them
\* and answered for the other.
C9_Witness ==
    /\ Compared
    /\ \E c1 \in report.section_changes, c2 \in report.section_changes :
           /\ c1.section \in llm_failing
           /\ c2.section \notin llm_failing

-----------------------------------------------------------------------------
(* A unified diff replayed against the old lines.                          *)

\* a[lo:hi] of Python
Slice(a, lo, hi) == [k \in 1..(Min({hi, Len(a)}) - lo) |-> a[lo + k]]

\* The lines obtained by replaying the diff against a, of which `cursor`
\* lines are consumed: the lines before a hunk are kept, a context line
\* keeps the next line of a, a delete line drops it, an insert line adds its
\* own text, and the lines after the last hunk are kept.
RECURSIVE ReplayFrom(_, _, _)
ReplayFrom(a, diff, cursor) ==
    IF diff = <<>> THEN Slice(a, cursor, Len(a))
    ELSE LET d == diff[1]
         IN  IF d.op = "@@"
             THEN Slice(a, cursor, d.range[1]) \o ReplayFrom(a, Tail(diff), d.range[1])
             ELSE IF d.op = " "
             THEN Slice(a, cursor, cursor + 1) \o ReplayFrom(a, Tail(diff), cursor + 1)
             ELSE IF d.op = "-"
             THEN ReplayFrom(a, Tail(diff), cursor + 1)
             ELSE IF d.op = "+"
             THEN <<d.line>> \o ReplayFrom(a, Tail(diff), cursor)
             ELSE ReplayFrom(a, Tail(diff), cursor)

\* every context line and every delete line of the diff carries the line of
\* a it stands for
RECURSIVE AppliesFrom(_, _, _)
AppliesFrom(a, diff, cursor) ==
    IF diff = <<>> THEN TRUE
    ELSE LET d == diff[1]
         IN  IF d.op = "@@" THEN AppliesFrom(a, Tail(diff), d.range[1])
             ELSE IF d.op \in {" ", "-"}
             THEN /\ Slice(a, cursor, cursor + 1) = <<d.line>>
                  /\ AppliesFrom(a, Tail(diff), cursor + 1)
             ELSE AppliesFrom(a, Tail(diff), cursor)

\* the number of hunks of a diff
Hunks(diff) == Cardinality({k \in 1..Len(diff) : diff[k].op = "@@"})

\* C11: for all line sequences A and B, replaying diff(A, B) in order
\* against A (context lines kept, deleted lines dropped, inserted lines
\* added) gives exactly B.
C11_ReplayGivesNew ==
    diff_phase = "done" =>
        /\ AppliesFrom(a_lines, patch, 0)
        /\ ReplayFrom(a_lines, patch, 0) = b_lines

\* C11 witness: a diff of two hunks, with deleted and inserted lines, has
\* been replayed
C11_Witness ==
    /\ diff_phase = "done"
    /\ Hunks(patch) = 2
    /\ \E k \in 1..Len(patch) : patch[k].op = "-"
    /\ \E k \in 1..Len(patch) : patch[k].op = "+"
    /\ ReplayFrom(a_lines, patch, 0) = b_lines

-----------------------------------------------------------------------------
(* Vocabulary of the properties of the workflow.                           *)

\* the stages in the order the spec gives them
StageOrder ==
    <<"load_content", "prepare_documents", "generate_summary", "compare_summaries",
      "export_summary">>
StageNames == {StageOrder[k] : k \in 1..Len(StageOrder)}

\* the stage has run in the run under way
RanStage(n) == \E k \in 1..Len(log.trace) : log.trace[k] = n

\* the messages that begin with "Error"
ErrorsIn(messages) == {k \in 1..Len(messages) : messages[k].text[1] = "Error"}

\* the exports of the scope key of the run that the directory held when the
\* run began, and the latest of them
PriorExports ==
    {n \in DOMAIN log.store_before :
        GlobMatches(n, NamePrefix(Some(call_kwargs.space_key), call_kwargs.page_id))}
LatestPriorExport ==
    CHOOSE n \in PriorExports : \A m \in PriorExports \ {n} : StrLess(m, n)

\* the files written during the run under way
WrittenFiles ==
    {n \in DOMAIN export_dir :
        n \notin DOMAIN log.store_before \/ export_dir[n] # log.store_before[n]}

\* C12: in every run of summarize() the stages execute in the fixed order
\* load, prepare, generate, compare, export, each exactly once, with no
\* branch and no cycle, and the run is over after export.
C12_FixedStageOrder ==
    pc # "idle" =>
        /\ Len(log.trace) <= Len(StageOrder)
        /\ log.trace = SubSeq(StageOrder, 1, Len(log.trace))
        /\ pc \in StageNames => pc = StageOrder[Len(log.trace) + 1]
        /\ pc \in {"END", "returned"} => log.trace = StageOrder

\* C12 witness: a second run has gone through the five stages and returned
C12_Witness ==
    /\ pc = "returned"
    /\ log.runs = 2
    /\ log.trace = StageOrder

\* C13: a stage that fails appends exactly one message, which begins with
\* "Error", to the run-context, and the workflow goes on to the next stage:
\* no exception leaves a stage, and every run reaches the end of the export
\* stage and returns a result.
C13_FailedStageIsRecorded ==
    /\ (pc \in StageNames) ~> (pc = "returned" /\ result # None)
    /\ [][/\ pc \in StageNames =>
               /\ pc' = Edges[pc]
               /\ pc \in log'.failed =>
                     /\ Len(agent_state'.messages) = Len(agent_state.messages) + 1
                     /\ SubSeq(agent_state'.messages, 1, Len(agent_state.messages))
                            = agent_state.messages
                     /\ LastMessage(agent_state'.messages).content.text[1] = "Error"
          /\ pc = "END" =>
               /\ pc' = "returned"
               /\ result' # None
               /\ Len(result'[1].messages) = Len(agent_state.messages)]_vars

\* C13 witness: a run in which the load stage and the generate stage failed
\* has returned its result, with one error message for each failed stage
C13_Witness ==
    /\ pc = "returned"
    /\ {"load_content", "generate_summary"} \subseteq log.failed
    /\ result # None
    /\ Cardinality(ErrorsIn(result[1].messages)) = Cardinality(log.failed)

\* C14: a fetch failure (the content source raises, or no document is
\* loaded) halts the run before generation: the generate stage and the text
\* generation service are never invoked in a run whose load stage failed.
C14_FetchFailureHaltsBeforeGeneration ==
    (/\ RanStage("load_content")
     /\ ("load_content" \in log.failed \/ agent_state.documents = <<>>))
    => (~RanStage("generate_summary") /\ log.generated = 0)

\* C15: no export file is written while the summary of the run-context is
\* unset: a file written during a run holds the generated summary in its
\* Summary section.
C15_NoExportWithoutSummary ==
    pc # "idle" =>
        \A n \in WrittenFiles :
            /\ agent_state.summary # None
            /\ Contains(export_dir[n], SummaryLead \o agent_state.summary[1])

\* C15 witness: a run asked to export has gone through the export stage with
\* its summary unset, and the directory holds no new file
C15_Witness ==
    /\ pc = "returned"
    /\ call_kwargs.export
    /\ RanStage("export_summary")
    /\ agent_state.summary = None
    /\ WrittenFiles = {}
    /\ result[1].export_path = None

\* C16: the compare stage of a run compares the new summary against the
\* most recent export of the same scope key that earlier runs left in the
\* directory, never an older one.
C16_ComparedWithLatestExport ==
    (RanStage("compare_summaries") /\ PriorExports # {})
    => log.compared_with = Some(LatestPriorExport)

\* C17: when the directory holds no earlier export of the scope key, the
\* compare stage is skipped without error: it appends no error message, and
\* comparison_stats and diff_result stay None.
C17_NoPriorExportIsNoError ==
    (RanStage("compare_summaries") /\ PriorExports = {})
    => /\ "compare_summaries" \notin log.failed
       /\ agent_state.comparison_stats = None
       /\ agent_state.diff_result = None

\* C18: when the earlier export chosen for the comparison has no
\* "## Summary" marker, it is treated as when there is no earlier export: the
\* comparison is skipped, comparison_stats and diff_result stay None, and
\* the run goes on to the export stage.
C18_FileWithoutMarkerIsSkipped ==
    (/\ RanStage("compare_summaries")
     /\ PriorExports # {}
     /\ \A n \in PriorExports : ~Contains(log.store_before[n], SummaryMarker))
    => /\ "compare_summaries" \notin log.failed
       /\ agent_state.comparison_stats = None
       /\ agent_state.diff_result = None
       /\ pc \in {"export_summary", "END", "returned"}

\* C19: for every generated summary S, also one with "## " headings in it,
\* exporting S and then extracting the summary body from the exported file
\* as the compare stage does returns S exactly as written.
C19_SummaryRoundTrip ==
    trip_phase = "read" => extracted = export_in.summary

\* C20: comparing an exported document against itself, the same text given
\* as both inputs of display_diff, completes with an empty whole-document
\* diff and a table in which every section has no changes and none is added
\* or removed.
C20_SelfFileComparison ==
    (phase = "displayed" /\ old_content = new_content) =>
        /\ shown.raised = ""
        /\ shown.printed
        /\ \A k \in 1..Len(shown.rows) : shown.rows[k].summary = "No changes"

-----------------------------------------------------------------------------
(* Properties of the export files and of the run parameters, checked under *)
(* SpecPipeline.                                                           *)

\* the run under way has loaded documents, and the text generation service
\* answers when it is called
LoadedAndServed ==
    /\ RanStage("load_content")
    /\ "load_content" \notin log.failed
    /\ agent_state.documents # <<>>
    /\ ~world.llm_raises

\* C24 (as claimed): the file of an exporting run is named
\* {space_key}_{page_id or "space"}_{YYYYMMDD_HHMMSS}.md after the arguments
\* of the run: the page id when one is given, the word "space" when the run
\* is over a whole space.
C24_ExportFileName ==
    (pc = "returned" /\ call_kwargs.export /\ LoadedAndServed) =>
        /\ FileName(Some(call_kwargs.space_key), call_kwargs.page_id, world.now)
               \in WrittenFiles
        /\ result[1].export_path
               = Some(FileName(Some(call_kwargs.space_key), call_kwargs.page_id, world.now))

\* C25 (as claimed): each export of a run adds one new file to the
\* directory and leaves the files of earlier exports as they were, also when
\* the clock shows the second of an earlier export.
C25_OneFilePerExport ==
    (pc = "returned" /\ call_kwargs.export /\ LoadedAndServed) =>
        /\ Cardinality(DOMAIN export_dir) = Cardinality(DOMAIN log.store_before) + 1
        /\ \A n \in DOMAIN log.store_before :
               n \in DOMAIN export_dir /\ export_dir[n] = log.store_before[n]

\* C26 (as claimed): every stage that reads the run parameters obtains the
\* arguments given to summarize(), whatever messages the stages before it
\* have appended, and in a run where loading and the text generation service
\* succeed the generate stage sets summary to the text of the service.
C26_StagesObtainTheParameters ==
    /\ pc \in {"load_content", "generate_summary", "compare_summaries", "export_summary"}
           => /\ ~LastParams(agent_state).raised
              /\ LastParams(agent_state).value = call_kwargs
    /\ (RanStage("generate_summary") /\ LoadedAndServed)
           => agent_state.summary = Some(world.llm_text)

\* C27 (as claimed): with export=False the export stage changes nothing: no
\* directory and no file is made, export_path stays None and no message is
\* appended to the run-context.
C27_NoExportLeavesNoTrace ==
    (RanStage("export_summary") /\ ~call_kwargs.export) =>
        /\ WrittenFiles = {}
        /\ ~log.mkdir
        /\ agent_state.export_path = None
        /\ "export_summary" \notin log.failed
        /\ \A k \in 1..Len(agent_state.messages) :
               Len(agent_state.messages[k].content.text) >= 2
                   => agent_state.messages[k].content.text[2] # " exporting summary: "

-----------------------------------------------------------------------------
(* The calls of the annotator, checked under SpecEngine.                   *)

\* the sum of f over its domain
RECURSIVE SumOver(_, _)
SumOver(f, S) ==
    IF S = {} THEN 0
    ELSE LET t == CHOOSE x \in S : TRUE IN f[t] + SumOver(f, S \ {t})

-----------------------------------------------------------------------------
(* Properties of the PersonaManager, checked under SpecPersona.            *)

\* what the calls made so far leave under a name: the prompt of the last
\* add_persona of that name if no remove_persona of it came after, the
\* prompt of __init__ if the name was never added nor removed, else nothing
RECURSIVE LastWrite(_, _)
LastWrite(calls, name) ==
    IF calls = <<>>
    THEN IF name \in DefaultPersonas THEN Some(DefaultPrompt(name)) ELSE None
    ELSE LET c == calls[Len(calls)]
         IN  IF c.name = name /\ c.op = "add_persona" THEN Some(c.prompt)
             ELSE IF c.name = name /\ c.op = "remove_persona" THEN None
             ELSE LastWrite(SubSeq(calls, 1, Len(calls) - 1), name)

\* C29: after any sequence of add_persona and remove_persona calls,
\* get_persona_prompt(n) returns the prompt most recently added under n if n
\* was not removed since and raises ValueError otherwise; remove_persona of
\* an absent name raises ValueError and leaves the personas as they were;
\* and changing the dictionary list_personas returned does not change the
\* personas of the manager.
C29_PersonaManager ==
    persona_calls # <<>> =>
        /\ DOMAIN manager.personas \subseteq DefaultPersonas \cup PersonaNames
        /\ \A n \in DefaultPersonas \cup PersonaNames :
               IF LastWrite(persona_calls, n) = None
               THEN n \notin DOMAIN manager.personas
               ELSE /\ n \in DOMAIN manager.personas
                    /\ manager.personas[n] = LastWrite(persona_calls, n)[1]
        /\ persona_out.op = "get_persona_prompt" =>
               IF LastWrite(persona_calls, persona_out.name) = None
               THEN /\ persona_out.raised
                    /\ persona_out.exception = "ValueError"
                    /\ persona_out.error = <<"Unknown persona: ", persona_out.name>>
               ELSE /\ ~persona_out.raised
                    /\ persona_out.value = LastWrite(persona_calls, persona_out.name)[1]
        /\ persona_out.op = "remove_persona" =>
               /\ persona_out.raised
                      = (LastWrite(SubSeq(persona_calls, 1, Len(persona_calls) - 1),
                                   persona_out.name) = None)
               /\ persona_out.raised => persona_out.exception = "ValueError"
        /\ persona_out.op = "add_persona" => ~persona_out.raised

\* C29 witness: a name was added and then removed, the dictionary handed out
\* by list_personas was changed by the caller and differs from the personas
\* of the manager, and get_persona_prompt of the removed name has raised
C29_Witness ==
    /\ persona_out.op = "get_persona_prompt"
    /\ persona_out.raised
    /\ \E i \in 1..Len(persona_calls), j \in 1..Len(persona_calls) :
           /\ i < j
           /\ persona_calls[i].op = "add_persona"
           /\ persona_calls[j].op = "remove_persona"
           /\ persona_calls[i].name = persona_out.name
           /\ persona_calls[j].name = persona_out.name
    /\ \E k \in 1..Len(persona_calls) : persona_calls[k].op = "mutate_listing"
    /\ listing # None
    /\ listing[1].dict # manager.personas

-----------------------------------------------------------------------------
(* Properties of the split into sections, checked under SpecSections.      *)

\* where the lines of a text begin
LineStarts(s) == {i \in 1..Len(s) : i = 1 \/ s[i - 1] = NL}

\* the line of s that begins at i
LineAt(s, i) == SplitNl(SubSeq(s, i, Len(s)))[1]

\* a line that starts with one or more "#" followed by whitespace
IsMarkerLine(l) ==
    /\ HashRun(l, 1) > 0
    /\ Len(l) > HashRun(l, 1)
    /\ l[HashRun(l, 1) + 1] \in Whitespace

\* a heading line: markers, whitespace and a label
IsHeading(l) ==
    /\ IsMarkerLine(l)
    /\ NonBlank(SubSeq(l, HashRun(l, 1) + 1, Len(l)))

\* where the heading lines of a text begin
HeadingStarts(s) == {i \in LineStarts(s) : IsHeading(LineAt(s, i))}

\* where the pieces of a split begin, the first piece left aside
RECURSIVE PieceStartsFrom(_, _)
PieceStartsFrom(sections, at) ==
    IF Len(sections) <= 1 THEN {}
    ELSE {at + Len(sections[1])}
         \cup PieceStartsFrom(Tail(sections), at + Len(sections[1]))
PieceStarts(sections) == PieceStartsFrom(sections, 1)

\* the pieces begin where sections begin: every heading line begins a
\* piece (the first piece begins with the text), and every piece after the
\* first begins at a line that starts with markers followed by whitespace
BeginAtHeadings(sections, s) ==
    /\ HeadingStarts(s) \subseteq PieceStarts(sections) \cup {1}
    /\ \A i \in PieceStarts(sections) : i \in LineStarts(s) /\ IsMarkerLine(LineAt(s, i))

\* the sections of a split: its pieces that are not blank, which are those
\* the titles are taken from
SectionsOf(sections) == SelectSeq(sections, NonBlank)

\* the sections of a split that carry a title
Carrying(sections, t) ==
    SelectSeq(sections, LAMBDA x : NonBlank(x) /\ SectionTitle(x) = t)

\* C21 (as claimed): a text without heading line is split into one section,
\* whose title is empty and whose body is the whole text; its first line is
\* not taken as a title.
C21_NoHeadingIsOneUntitledSection ==
    (Compared /\ HeadingStarts(old_content) = {} /\ NonBlank(old_content)) =>
        /\ report.old_sections = <<old_content>>
        /\ report.old_titles = {<<>>}
        /\ <<>> \in report.examined =>
               report.compared[<<>>].old_lines = SplitNl(old_content)

\* C22 (as claimed): a section begins only at a line that starts with one
\* or more markers followed by whitespace and a label, whatever the number
\* of markers: markers inside a line begin no section, and a heading line of
\* one, two or three markers does, in the comparison and in display_diff.
C22_SectionsBeginAtHeadingLines ==
    /\ Compared =>
           /\ BeginAtHeadings(report.old_sections, old_content)
           /\ BeginAtHeadings(report.new_sections, new_content)
    /\ phase = "displayed" =>
           /\ BeginAtHeadings(shown.old_sections, old_content)
           /\ BeginAtHeadings(shown.new_sections, new_content)

\* C23 (as claimed): a title carried by more than one section of a version
\* is resolved to the first of them in the order of the document: the body
\* compared for the title is the body of that section, and the title has at
\* most one entry in section_changes.
C23_FirstOccurrenceOfATitle ==
    Compared =>
        /\ \A t \in report.examined :
               /\ Len(Carrying(report.old_sections, t)) > 1 =>
                      report.compared[t].old_lines
                          = BodyLines(Carrying(report.old_sections, t)[1])
               /\ Len(Carrying(report.new_sections, t)) > 1 =>
                      report.compared[t].new_lines
                          = BodyLines(Carrying(report.new_sections, t)[1])
        /\ Cardinality(report.section_changes) = Cardinality(ListedTitles)

=============================================================================
